---- MODULE Spec2Model ----
(***************************************************************************)
(* Session/thread state machine of streamlit_app.py: the working chat      *)
(* (messages, thread_id, conversation_count, active_chat_id), the saved    *)
(* chats (chat_history) and the handlers that mutate them (New Chat, load, *)
(* delete, clear, chat_input).                                             *)
(*                                                                         *)
(* Python lists are objects: session_state.messages and chat["messages"]   *)
(* are references into a heap of lists, so that .copy() and plain          *)
(* assignment differ.  Strings are sequences of one-character strings.     *)
(***************************************************************************)
EXTENDS Integers, Sequences, FiniteSets, TLC

\* ---------------------------------------------------------------- bounds
MaxSubmits == 2

\* ------------------------------------------------------- program constants
TitleMax == 50
HighThreshold == 80
MediumThreshold == 60

\* ------------------------------------------------------------ value space
None == "None"
Missing == "Missing"
NullConfidence == 0 - 1

Refs == 1..(MaxSubmits + 2)
ChatIdPool == <<"c1", "c2", "c3", "c4", "c5", "c6">>
UuidPool == <<"u1", "u2", "u3", "u4", "u5", "u6">>

Rep(n, c) == [i \in 1..n |-> c]
Append3(s) == s \o <<".", ".", ".">>

\* the longest prompt that is its own title, the shortest that is truncated,
\* and a prompt of white space only
ShortPrompt == Rep(TitleMax, "h")
LongPrompt == Rep(TitleMax + 1, "x")
BlankPrompt == <<" ">>
Prompts == {ShortPrompt, LongPrompt, BlankPrompt}

NewChatTitle == <<"N", "e", "w", " ", "C", "h", "a", "t">>

\* JSON bodies the query service may answer with: fields is the set of keys
\* present; confidence is in tenths, NullConfidence is a JSON null.
Responses ==
  { [fields |-> {"answer", "confidence", "thread_id"}, answer |-> "ans", confidence |-> 80, thread_id |-> "t1"],
    [fields |-> {"answer", "confidence"}, answer |-> "ans", confidence |-> 80, thread_id |-> Missing],
    [fields |-> {"answer", "confidence", "thread_id"}, answer |-> "ans", confidence |-> 80, thread_id |-> None],
    [fields |-> {"answer", "confidence", "thread_id"}, answer |-> "ans", confidence |-> 80, thread_id |-> ""],
    [fields |-> {"answer", "confidence"}, answer |-> "ans", confidence |-> NullConfidence, thread_id |-> Missing] }

Errors == {"HTTPError", "Exception"}

VARIABLES
  heap,               \* list object -> its elements
  messages,           \* st.session_state.messages (a list reference)
  thread_id,          \* st.session_state.thread_id
  conversation_count, \* st.session_state.conversation_count
  chat_history,       \* st.session_state.chat_history (sequence of dicts)
  active_chat_id,     \* st.session_state.active_chat_id
  pc,                 \* position of the chat_input handler: "idle" | "calling"
  request,            \* the query_rag call in flight
  lastOp,             \* history: the handler that ran last
  lastArg,            \* history: its input (chat id, prompt, response body or error)
  justSaved,          \* history: what the last New Chat saved, and under which id
  successfulSubmits,  \* history: successful submits on the working thread
  failedSubmits,      \* history: failed submits on the working thread
  lenAtStart,         \* history: len(messages) when the working thread was (re)started
  submits             \* history: chat_input submissions so far in the session

vars == <<heap, messages, thread_id, conversation_count, chat_history,
          active_chat_id, pc, request, lastOp, lastArg, justSaved,
          successfulSubmits, failedSubmits, lenAtStart, submits>>

NoRequest == [question |-> <<>>, params |-> Missing]
NoSave == [id |-> None, messages |-> <<>>, thread_id |-> None, count |-> 0]

\* ------------------------------------------------------------ Python values
\* bool(x) of an Optional[str]
Truthy(s) == s # None /\ s # ""

HumanMessage(content) == [role |-> "user", content |-> content]
AIMessage(content) == [role |-> "assistant", content |-> content]

\* ------------------------------------------------------------------- heap
Roots(m, h) == {m} \cup {h[i].messages : i \in 1..Len(h)}

\* a new list object: the lowest reference no live object occupies
NewRef(roots) == CHOOSE r \in Refs \ roots : \A s \in Refs \ roots : r <= s

\* References are opaque, so the lists in use are renamed after every handler:
\* session_state.messages becomes list 1 and the list of the i-th chat becomes
\* list i + 1.  When two of them are the same object the names are kept.
\* Lists nothing refers to any more are dropped.
RootSeq(m, h) == <<m>> \o [i \in 1..Len(h) |-> h[i].messages]

Commit(m, h, hp) ==
  IF Cardinality(Roots(m, h)) = Len(h) + 1
  THEN /\ messages' = 1
       /\ chat_history' = [i \in 1..Len(h) |-> [h[i] EXCEPT !.messages = i + 1]]
       /\ heap' = [k \in Refs |-> IF k <= Len(h) + 1 THEN hp[RootSeq(m, h)[k]] ELSE <<>>]
  ELSE /\ messages' = m
       /\ chat_history' = h
       /\ heap' = [k \in Refs |-> IF k \in Roots(m, h) THEN hp[k] ELSE <<>>]

Msgs == heap[messages]
ChatMsgs(i) == heap[chat_history[i].messages]

\* chat_history with every list reference replaced by the list's elements
HistoryView(h, hp) ==
  [i \in 1..Len(h) |-> [id |-> h[i].id, title |-> h[i].title, messages |-> hp[h[i].messages],
                        thread_id |-> h[i].thread_id, count |-> h[i].count]]

ChatIds(h) == {h[i].id : i \in 1..Len(h)}

\* str(uuid.uuid4()): a value that occurs nowhere in the session
FreshFrom(pool, used) ==
  pool[CHOOSE k \in 1..Len(pool) : pool[k] \notin used /\ \A j \in 1..(k - 1) : pool[j] \in used]

NewChatId == FreshFrom(ChatIdPool, ChatIds(chat_history) \cup {active_chat_id})
NewUuid == FreshFrom(UuidPool, {thread_id} \cup {chat_history[i].thread_id : i \in 1..Len(chat_history)})

\* ------------------------------------------------------------------- Init
Init ==
  /\ heap = [r \in Refs |-> <<>>]
  /\ messages = 1
  /\ thread_id = None
  /\ conversation_count = 0
  /\ chat_history = <<>>
  /\ active_chat_id = None
  /\ pc = "idle"
  /\ request = NoRequest
  /\ lastOp = "init"
  /\ lastArg = None
  /\ justSaved = NoSave
  /\ successfulSubmits = 0
  /\ failedSubmits = 0
  /\ lenAtStart = 0
  /\ submits = 0

\* ------------------------------------------------------- New Chat (save+reset)
\* the first HumanMessage of the list, 0 when there is none
FirstHuman(msgs) ==
  IF \E i \in 1..Len(msgs) : msgs[i].role = "user"
  THEN CHOOSE i \in 1..Len(msgs) : msgs[i].role = "user" /\ \A j \in 1..(i - 1) : msgs[j].role # "user"
  ELSE 0

\* variant: truncation already at TitleMax characters
ChatTitleAtLeast(msgs) ==
  LET k == FirstHuman(msgs)
      first_message == IF k = 0 THEN <<>> ELSE msgs[k].content
  IN IF k # 0 /\ first_message # <<>> /\ Len(first_message) >= TitleMax
     THEN Append3(SubSeq(first_message, 1, TitleMax))
     ELSE IF k # 0 /\ first_message # <<>> THEN first_message ELSE NewChatTitle

ChatTitle(msgs) ==
  LET k == FirstHuman(msgs)
      first_message == IF k = 0 THEN <<>> ELSE msgs[k].content
  IN IF k # 0 /\ first_message # <<>> /\ Len(first_message) > TitleMax
     THEN Append3(SubSeq(first_message, 1, TitleMax))
     ELSE IF k # 0 /\ first_message # <<>> THEN first_message ELSE NewChatTitle

\* index of the first chat with the active id, 0 when chat_exists stays False
ActiveIndex ==
  IF Truthy(active_chat_id) /\ \E i \in 1..Len(chat_history) : chat_history[i].id = active_chat_id
  THEN CHOOSE i \in 1..Len(chat_history) :
         /\ chat_history[i].id = active_chat_id
         /\ \A j \in 1..(i - 1) : chat_history[j].id # active_chat_id
  ELSE 0

\* variant: the update forgets chat["thread_id"]
UpdateChatKeepsThreadId(h, k, ref) ==
  [h EXCEPT ![k] = [@ EXCEPT !.messages = ref, !.count = conversation_count]]

\* variant: the update forgets chat["count"]
UpdateChatKeepsCount(h, k, ref) ==
  [h EXCEPT ![k] = [@ EXCEPT !.messages = ref, !.thread_id = thread_id]]

UpdateChat(h, k, ref) ==
  [h EXCEPT ![k] = [@ EXCEPT !.messages = ref, !.thread_id = thread_id, !.count = conversation_count]]

\* variant: append instead of insert(0, ...)
InsertChatAtEnd(h, chat) == Append(h, chat)

InsertChat(h, chat) == <<chat>> \o h

\* variant: the save step has no update branch and always inserts
SavedHistoryAlwaysInsert(ref) ==
  IF Msgs = <<>> THEN chat_history
  ELSE InsertChat(chat_history,
                  [id |-> NewChatId, title |-> ChatTitle(Msgs), messages |-> ref,
                   thread_id |-> thread_id, count |-> conversation_count])

\* chat_history after the save step, the copied list being stored at ref
SavedHistory(ref) ==
  IF Msgs = <<>> THEN chat_history
  ELSE IF ActiveIndex # 0 THEN UpdateChat(chat_history, ActiveIndex, ref)
  ELSE InsertChat(chat_history,
                  [id |-> NewChatId, title |-> ChatTitle(Msgs), messages |-> ref,
                   thread_id |-> thread_id, count |-> conversation_count])

\* variant: the reset forgets thread_id
ResetWorkingKeepsThreadId(hp, h) ==
  LET empty == NewRef(Roots(messages, h))
  IN /\ Commit(empty, h, [hp EXCEPT ![empty] = <<>>])
     /\ conversation_count' = 0
     /\ active_chat_id' = None
     /\ successfulSubmits' = 0
     /\ failedSubmits' = 0
     /\ lenAtStart' = 0
     /\ UNCHANGED thread_id

\* the working state of a started chat, on a new empty list
ResetWorking(hp, h) ==
  LET empty == NewRef(Roots(messages, h))
  IN /\ Commit(empty, h, [hp EXCEPT ![empty] = <<>>])
     /\ thread_id' = None
     /\ conversation_count' = 0
     /\ active_chat_id' = None
     /\ successfulSubmits' = 0
     /\ failedSubmits' = 0
     /\ lenAtStart' = 0

NewChat ==
  /\ pc = "idle"
  /\ LET copy == NewRef(Roots(messages, chat_history))
         hist == SavedHistory(copy)
         hp == IF Msgs = <<>> THEN heap ELSE [heap EXCEPT ![copy] = Msgs]
     IN /\ ResetWorking(hp, hist)
        /\ justSaved' = IF Msgs = <<>> THEN NoSave
                        ELSE [id |-> IF ActiveIndex # 0 THEN active_chat_id ELSE NewChatId,
                              messages |-> Msgs, thread_id |-> thread_id,
                              count |-> conversation_count]
  /\ lastOp' = "new_chat"
  /\ lastArg' = None
  /\ UNCHANGED <<pc, request, submits>>

\* ------------------------------------------------------------ load a chat
\* variant: chat["messages"] without .copy()
LoadedListAlias(chat) == chat.messages

\* chat["messages"].copy()
LoadedList(chat) == NewRef(Roots(messages, chat_history))

LoadChat(idx) ==
  /\ pc = "idle"
  /\ idx \in 1..Len(chat_history)
  /\ LET chat == chat_history[idx]
         ref == LoadedList(chat)
     IN /\ Commit(ref, chat_history, [heap EXCEPT ![ref] = heap[chat.messages]])
        /\ thread_id' = chat.thread_id
        /\ conversation_count' = chat.count
        /\ active_chat_id' = chat.id
        /\ lenAtStart' = Len(heap[chat.messages])
        /\ justSaved' = IF lastOp = "new_chat" /\ justSaved.id = chat.id THEN justSaved ELSE NoSave
  /\ successfulSubmits' = 0
  /\ failedSubmits' = 0
  /\ lastOp' = "load"
  /\ lastArg' = chat_history[idx].id
  /\ UNCHANGED <<pc, request, submits>>

\* ---------------------------------------------------------- delete a chat
\* variant: pop() without the index
PopLast(h, idx) == SubSeq(h, 1, Len(h) - 1)

Pop(h, idx) == SubSeq(h, 1, idx - 1) \o SubSeq(h, idx + 1, Len(h))

\* variant: the delete handler never resets the working state
DeletesActiveNever(chat) == FALSE

\* chat["id"] == st.session_state.active_chat_id
DeletesActive(chat) == chat.id = active_chat_id

DeleteChat(idx) ==
  /\ pc = "idle"
  /\ idx \in 1..Len(chat_history)
  /\ LET chat == chat_history[idx]
         hist == Pop(chat_history, idx)
     IN IF DeletesActive(chat)
        THEN ResetWorking(heap, hist)
        ELSE /\ Commit(messages, hist, heap)
             /\ UNCHANGED <<thread_id, conversation_count, active_chat_id,
                            successfulSubmits, failedSubmits, lenAtStart>>
  /\ justSaved' = NoSave
  /\ lastOp' = "delete"
  /\ lastArg' = chat_history[idx].id
  /\ UNCHANGED <<pc, request, submits>>

\* ------------------------------------------------------ clear current chat
ClearChat ==
  /\ pc = "idle"
  /\ Msgs # <<>>
  /\ ResetWorking(heap, chat_history)
  /\ justSaved' = NoSave
  /\ lastOp' = "clear"
  /\ lastArg' = None
  /\ UNCHANGED <<pc, request, submits>>

\* ------------------------------------------------------------- chat_input
\* variant: thread_id is always passed on
QueryParamsAlways(tid) == tid

\* query_rag: thread_id goes into the query parameters only when truthy
QueryParams(tid) == IF Truthy(tid) THEN tid ELSE Missing

\* variant: the question is not appended before the call
WithoutQuestion(msgs, prompt) == msgs

\* st.session_state.messages.append(HumanMessage(content=prompt))
WithQuestion(msgs, prompt) == Append(msgs, HumanMessage(prompt))

SubmitStart(prompt) ==
  /\ pc = "idle"
  /\ prompt # <<>>
  /\ submits < MaxSubmits
  /\ submits' = submits + 1
  /\ heap' = [heap EXCEPT ![messages] = WithQuestion(@, prompt)]
  /\ request' = [question |-> prompt, params |-> QueryParams(thread_id)]
  /\ pc' = "calling"
  /\ justSaved' = NoSave
  /\ lastOp' = "submit"
  /\ lastArg' = prompt
  /\ UNCHANGED <<messages, thread_id, conversation_count, chat_history, active_chat_id,
                 successfulSubmits, failedSubmits, lenAtStart>>

\* result.get(key, default)
Get(r, key, default) == IF key \in r.fields THEN r[key] ELSE default

\* variant: strict comparisons
ConfidenceTextStrict(confidence) ==
  IF confidence > HighThreshold THEN "High"
  ELSE IF confidence > MediumThreshold THEN "Medium"
  ELSE "Low"

ConfidenceText(confidence) ==
  IF confidence >= HighThreshold THEN "High"
  ELSE IF confidence >= MediumThreshold THEN "Medium"
  ELSE "Low"

ConfidenceEmoji(confidence) ==
  IF confidence >= HighThreshold THEN "green"
  ELSE IF confidence >= MediumThreshold THEN "yellow"
  ELSE "red"

\* f"{confidence:.1f}" of a confidence given in tenths
Digit(d) == <<"0", "1", "2", "3", "4", "5", "6", "7", "8", "9">>[d + 1]
FormatConfidence(confidence) ==
  (IF confidence >= 100 THEN <<Digit(confidence \div 100)>> ELSE <<>>)
    \o <<Digit((confidence \div 10) % 10), ".", Digit(confidence % 10)>>

FullResponse(r) ==
  LET answer == Get(r, "answer", "No answer received")
      confidence == Get(r, "confidence", 0)
  IN <<answer, "\n\n", "*Confidence: ", ConfidenceEmoji(confidence), " ",
       ConfidenceText(confidence), " (">> \o FormatConfidence(confidence) \o <<"/10)*">>

\* the comparison confidence >= 8 raises TypeError on a null confidence
WellFormed(r) == Get(r, "confidence", 0) # NullConfidence

NextThreadId(tid, r) ==
  IF ~Truthy(tid) THEN Get(r, "thread_id", NewUuid) ELSE tid

SubmitSuccess(r) ==
  /\ pc = "calling"
  /\ WellFormed(r)
  /\ thread_id' = NextThreadId(thread_id, r)
  /\ conversation_count' = conversation_count + 1
  /\ heap' = [heap EXCEPT ![messages] = Append(@, AIMessage(FullResponse(r)))]
  /\ successfulSubmits' = successfulSubmits + 1
  /\ pc' = "idle"
  /\ request' = NoRequest
  /\ justSaved' = NoSave
  /\ lastOp' = "success"
  /\ lastArg' = r
  /\ UNCHANGED <<messages, chat_history, active_chat_id, failedSubmits, lenAtStart, submits>>

\* variant: the failed question is taken back
AfterFailureRollback(msgs) == SubSeq(msgs, 1, Len(msgs) - 1)

\* the list of messages after a failed call
AfterFailure(msgs) == msgs

Failed ==
  /\ heap' = [heap EXCEPT ![messages] = AfterFailure(@)]
  /\ failedSubmits' = failedSubmits + 1
  /\ pc' = "idle"
  /\ request' = NoRequest
  /\ justSaved' = NoSave
  /\ lastOp' = "failure"
  /\ UNCHANGED <<messages, thread_id, conversation_count, chat_history, active_chat_id,
                 successfulSubmits, lenAtStart, submits>>

\* query_rag raises (transport error, raise_for_status, invalid JSON)
SubmitRaise(e) ==
  /\ pc = "calling"
  /\ e \in Errors
  /\ Failed
  /\ lastArg' = e

\* variant: the handling raises after thread_id and the count were written
SubmitResponseErrorLate(r) ==
  /\ pc = "calling"
  /\ ~WellFormed(r)
  /\ thread_id' = NextThreadId(thread_id, r)
  /\ conversation_count' = conversation_count + 1
  /\ failedSubmits' = failedSubmits + 1
  /\ pc' = "idle"
  /\ request' = NoRequest
  /\ justSaved' = NoSave
  /\ lastOp' = "failure"
  /\ lastArg' = r
  /\ UNCHANGED <<heap, messages, chat_history, active_chat_id, successfulSubmits, lenAtStart, submits>>

\* the call returns a body whose handling raises before any state is written
SubmitResponseError(r) ==
  /\ pc = "calling"
  /\ ~WellFormed(r)
  /\ Failed
  /\ lastArg' = r

Next ==
  \/ NewChat
  \/ \E idx \in 1..MaxSubmits : LoadChat(idx)
  \/ \E idx \in 1..MaxSubmits : DeleteChat(idx)
  \/ ClearChat
  \/ \E prompt \in Prompts : SubmitStart(prompt)
  \/ \E r \in Responses : SubmitSuccess(r)
  \/ \E e \in Errors : SubmitRaise(e)
  \/ \E r \in Responses : SubmitResponseError(r)

Spec == Init /\ [][Next]_vars

\* ------------------------------------------- the confidence scale, submit only
\* confidences in tenths around both thresholds, and a body without the field
ConfidenceScale == {0, MediumThreshold - 1, MediumThreshold, HighThreshold - 1, HighThreshold, 100}
ScaleResponses ==
  { [fields |-> {"answer", "confidence", "thread_id"}, answer |-> "ans", confidence |-> c, thread_id |-> "t1"] :
      c \in ConfidenceScale }
  \cup { [fields |-> {"answer", "thread_id"}, answer |-> "ans", confidence |-> Missing, thread_id |-> "t1"] }

NextConfidence ==
  \/ \E prompt \in Prompts : SubmitStart(prompt)
  \/ \E r \in ScaleResponses : SubmitSuccess(r)

SpecConfidence == Init /\ [][NextConfidence]_vars

TypeOK ==
  /\ messages \in Refs
  /\ pc \in {"idle", "calling"}
  /\ Len(chat_history) <= MaxSubmits
  /\ Len(Msgs) <= 2 * MaxSubmits

\* =================================================================== claims
History == HistoryView(chat_history, heap)
Last(s) == s[Len(s)]

\* C1 -- round trip: when New Chat has saved a working thread with at least one
\* message and the saved entry is loaded next by its id, messages, thread_id
\* and conversation_count are what they were right before the save, and
\* active_chat_id is that id.
C1_RoundTrip ==
  (lastOp = "load" /\ justSaved # NoSave) =>
     /\ Msgs = justSaved.messages
     /\ thread_id = justSaved.thread_id
     /\ conversation_count = justSaved.count
     /\ active_chat_id = justSaved.id

C1_Witness ==
  /\ lastOp = "load"
  /\ justSaved # NoSave
  /\ Len(Msgs) >= 2
  /\ Truthy(thread_id)
  /\ Len(chat_history) >= 2

\* C2 (as stated) -- the messages added to the working thread number
\* 2 * successful submits + unanswered, with unanswered 0 or 1, and 1 only
\* when the last submit is pending or has failed.
C2_AtMostOneUnanswered ==
  LET unanswered == Len(Msgs) - lenAtStart - 2 * successfulSubmits
  IN /\ unanswered \in {0, 1}
     /\ unanswered = 1 => (pc = "calling" \/ lastOp = "failure")

\* C2 (amended) -- the messages added to the working thread number
\* 2 * successful submits + failed submits + 1 if a call is pending: every
\* failed submit leaves its question in the list.
C2_LengthLaw ==
  Len(Msgs) = lenAtStart + 2 * successfulSubmits + failedSubmits
                + (IF pc = "calling" THEN 1 ELSE 0)

C2_Witness ==
  /\ failedSubmits >= 2
  /\ Len(Msgs) = lenAtStart + 2
  /\ pc = "idle"

\* C3 -- a failed call (query_rag raises, or the handling of the body raises)
\* appends no assistant message, keeps the question appended before the call
\* as last message, leaves thread_id, conversation_count, active_chat_id and
\* chat_history as they were, and the handler ends normally.
C3_FailureKeepsState ==
  [][(pc = "calling" /\ lastOp' = "failure") =>
       /\ Msgs' = Msgs
       /\ Msgs # <<>>
       /\ Last(Msgs) = HumanMessage(request.question)
       /\ thread_id' = thread_id
       /\ conversation_count' = conversation_count
       /\ active_chat_id' = active_chat_id
       /\ History' = History
       /\ pc' = "idle"]_vars

C3_Witness ==
  /\ lastOp = "failure"
  /\ Len(Msgs) = 1
  /\ Last(Msgs).role = "user"
  /\ conversation_count = 0
  /\ ~Truthy(thread_id)

\* the working thread is stored in some saved chat
WorkingIsSaved(msgs, tid, count, hist) ==
  \E i \in 1..Len(hist) :
     /\ hist[i].messages = msgs
     /\ hist[i].thread_id = tid
     /\ hist[i].count = count

\* C4 (as stated) -- after a load or a New Chat that starts from a working
\* thread with at least one message, that working thread (messages, thread_id,
\* count) is held by a saved chat: no working message is lost.
C4_SwitchSavesWorking ==
  [][(lastOp' \in {"load", "new_chat"} /\ Msgs # <<>>) =>
       WorkingIsSaved(Msgs, thread_id, conversation_count, History')]_vars

\* C5 (as stated) -- once the working thread or a saved chat has a thread_id,
\* no handler changes or clears it while the thread stays the same thread
\* (same active_chat_id, resp. same chat id) and still has messages.
C5_TokenSetOnce ==
  [][/\ (Truthy(thread_id) /\ active_chat_id' = active_chat_id /\ Msgs' # <<>>)
          => thread_id' = thread_id
     /\ \A i \in 1..Len(chat_history) : \A j \in 1..Len(chat_history') :
          (chat_history[i].id = chat_history'[j].id /\ Truthy(chat_history[i].thread_id))
             => chat_history'[j].thread_id = chat_history[i].thread_id]_vars

\* C6 (as stated) -- after the first successful submit of a thread without a
\* thread_id, a thread_id is present.
C6_ContinuedAfterSuccess ==
  [][(lastOp' = "success" /\ ~Truthy(thread_id)) => Truthy(thread_id')]_vars

\* C7 -- no step of a submit (question appended, answer appended, failure)
\* changes any saved chat, in particular not the one the working thread was
\* loaded from.
C7_SubmitLeavesSavedChats ==
  [][lastOp' \in {"submit", "success", "failure"} => History' = History]_vars

C7_Witness ==
  /\ lastOp = "success"
  /\ ActiveIndex # 0
  /\ Len(Msgs) > Len(ChatMsgs(ActiveIndex))

\* C8 -- New Chat ends with an empty working state; with no message it leaves
\* chat_history alone; with messages it writes exactly one chat -- the active
\* one in place, or a new one -- holding the messages, thread_id and count the
\* working thread had, and leaves the other chats alone.
C8_NewChat ==
  [][lastOp' = "new_chat" =>
       /\ active_chat_id' = None
       /\ Msgs' = <<>>
       /\ thread_id' = None
       /\ conversation_count' = 0
       /\ Msgs = <<>> => History' = History
       /\ (Msgs # <<>> /\ ActiveIndex # 0) =>
            /\ Len(History') = Len(History)
            /\ \A i \in 1..Len(History) :
                 History'[i] = IF i = ActiveIndex
                               THEN [History[i] EXCEPT !.messages = Msgs, !.thread_id = thread_id,
                                                       !.count = conversation_count]
                               ELSE History[i]
       /\ (Msgs # <<>> /\ ActiveIndex = 0) =>
            /\ Len(History') = Len(History) + 1
            /\ \E k \in 1..Len(History') :
                 /\ History'[k].id \notin ChatIds(chat_history)
                 /\ History'[k].messages = Msgs
                 /\ History'[k].thread_id = thread_id
                 /\ History'[k].count = conversation_count
                 /\ Pop(History', k) = History]_vars

C8_Witness ==
  /\ lastOp = "new_chat"
  /\ justSaved # NoSave
  /\ Truthy(justSaved.thread_id)
  /\ Len(justSaved.messages) >= 2
  /\ Msgs = <<>>

UniqueIds ==
  \A i \in 1..Len(chat_history) : \A j \in 1..Len(chat_history) :
     chat_history[i].id = chat_history[j].id => i = j

\* C9 -- no two saved chats have the same id, and New Chat on a working thread
\* whose active_chat_id is the id of a saved chat keeps the number of chats.
C9_NoDuplicateChats ==
  /\ []UniqueIds
  /\ [][(lastOp' = "new_chat" /\ ActiveIndex # 0) =>
          /\ Len(chat_history') = Len(chat_history)
          /\ ChatIds(chat_history') = ChatIds(chat_history)]_vars

C9_Witness ==
  /\ lastOp = "new_chat"
  /\ justSaved # NoSave
  /\ Len(chat_history) >= 2
  /\ \E i \in 2..Len(chat_history) : chat_history[i].id = justSaved.id

IdsOf(hist) == [i \in 1..Len(hist) |-> hist[i].id]

WorkingState == <<Msgs, thread_id, conversation_count, active_chat_id>>

\* C11 -- deleting chat id removes exactly the chat with that id; when id is
\* the active chat the working state is reset to empty (and nothing is saved);
\* otherwise, also when no chat is active, the working state is unchanged.
C11_Delete ==
  [][lastOp' = "delete" =>
       /\ lastArg' \in ChatIds(chat_history)
       /\ lastArg' \notin ChatIds(chat_history')
       /\ \E idx \in 1..Len(History) :
            History[idx].id = lastArg' /\ History' = Pop(History, idx)
       /\ lastArg' = active_chat_id =>
            WorkingState' = <<(<<>>), None, 0, None>>
       /\ lastArg' # active_chat_id => WorkingState' = WorkingState]_vars

C11_Witness ==
  /\ lastOp = "delete"
  /\ Truthy(active_chat_id)
  /\ lastArg # active_chat_id
  /\ Len(Msgs) >= 2
  /\ Len(chat_history) >= 1

\* str.strip() leaves nothing
IsBlank(str) == \A i \in 1..Len(str) : str[i] \in {" ", "\t", "\n"}

\* C12 (as stated) -- a submit whose question is empty after trimming appends
\* no message and starts no call.
C12_BlankSubmitIsNoOp ==
  [][(lastOp' = "submit" /\ IsBlank(lastArg')) => (Msgs' = Msgs /\ pc' = "idle")]_vars

\* the title the first user message of msgs stands for
UserContents(msgs) ==
  LET IsUser(m) == m.role = "user" IN [i \in 1..Len(SelectSeq(msgs, IsUser)) |-> SelectSeq(msgs, IsUser)[i].content]

TitleFor(msgs) ==
  LET users == UserContents(msgs)
  IN IF users = <<>> \/ users[1] = <<>> THEN <<"N", "e", "w", " ", "C", "h", "a", "t">>
     ELSE IF Len(users[1]) <= TitleMax THEN users[1]
     ELSE SubSeq(users[1], 1, TitleMax) \o <<".", ".", ".">>

\* C14 -- every saved chat's title is the title its first user message stands
\* for (the message when it has at most 50 characters, else its first 50
\* characters and "...", "New Chat" without one), also after the chat was
\* updated in place.
C14_Titles ==
  \A i \in 1..Len(chat_history) : chat_history[i].title = TitleFor(ChatMsgs(i))

C14_Witness ==
  /\ lastOp = "new_chat"
  /\ justSaved # NoSave
  /\ \E i \in 1..Len(chat_history) :
       /\ chat_history[i].id = justSaved.id
       /\ Len(chat_history[i].title) = TitleMax + 3
       /\ Len(ChatMsgs(i)) >= 3

\* the annotation the claim assigns to a response body
BucketFor(r) ==
  LET confidence == IF "confidence" \in r.fields THEN r.confidence ELSE 0
  IN IF confidence >= 80 THEN "High"
     ELSE IF 60 <= confidence /\ confidence < 80 THEN "Medium"
     ELSE "Low"

\* C15 -- the assistant message appended by a successful submit carries "High"
\* for a confidence of at least 8, "Medium" from 6 to below 8, "Low" below 6,
\* and "Low" when the body has no confidence.
C15_ConfidenceAnnotation ==
  lastOp = "success" =>
     /\ Last(Msgs).role = "assistant"
     /\ Last(Msgs).content[6] = BucketFor(lastArg)

C15_Witness ==
  /\ lastOp = "success"
  /\ "confidence" \in lastArg.fields
  /\ lastArg.confidence = 80
  /\ Last(Msgs).content[6] = "High"
  /\ Len(Msgs) = 4
  /\ Msgs[2].content[6] = "Low"

\* what a call carries for a thread whose token is tid
SentFor(tid) == IF tid \in {None, ""} THEN Missing ELSE tid

\* C16 -- every submit calls the query service with the question and the
\* working thread's thread_id (nothing when the thread has none): the stored
\* thread_id of the chat right after a load, nothing right after New Chat or
\* clear, and never any other token.
C16_TokenSent ==
  [][lastOp' = "submit" =>
       /\ pc' = "calling"
       /\ request'.question = lastArg'
       /\ request'.params = SentFor(thread_id)
       /\ (lastOp = "load" /\ ActiveIndex # 0) =>
            request'.params = SentFor(chat_history[ActiveIndex].thread_id)
       /\ lastOp \in {"init", "new_chat", "clear"} => request'.params = Missing]_vars

C16_Witness ==
  /\ lastOp = "submit"
  /\ ActiveIndex # 0
  /\ Len(Msgs) = lenAtStart + 1
  /\ request.params \in {"t1"} \cup {UuidPool[k] : k \in 1..Len(UuidPool)}
  /\ request.params = chat_history[ActiveIndex].thread_id

\* the first message is a question and every answer follows a question
Alternates(msgs) ==
  /\ msgs # <<>> => msgs[1].role = "user"
  /\ \A i \in 1..Len(msgs) : msgs[i].role = "assistant" => (i > 1 /\ msgs[i - 1].role = "user")

\* C17 -- in the working list and in every saved chat the first message is a
\* user message and every assistant message directly follows a user message.
C17_AnswersFollowQuestions ==
  /\ Alternates(Msgs)
  /\ \A i \in 1..Len(chat_history) : Alternates(ChatMsgs(i))

C17_Witness ==
  /\ Len(chat_history) >= 1
  /\ Len(ChatMsgs(1)) = 2
  /\ ChatMsgs(1)[2].role = "assistant"
  /\ Len(Msgs) = 4
  /\ Msgs[2].role = "assistant"
  /\ Msgs[4].role = "assistant"

Assistants(msgs) == Cardinality({i \in 1..Len(msgs) : msgs[i].role = "assistant"})

\* C18 -- conversation_count is the number of assistant messages of the working
\* list, and every saved chat's count is the number of assistant messages of
\* its list.
C18_CountsAnswers ==
  /\ conversation_count = Assistants(Msgs)
  /\ \A i \in 1..Len(chat_history) : chat_history[i].count = Assistants(ChatMsgs(i))

C18_Witness ==
  /\ lastOp = "new_chat"
  /\ justSaved # NoSave
  /\ justSaved.count = 2
  /\ \E i \in 1..Len(chat_history) :
       chat_history[i].id = justSaved.id /\ chat_history[i].count = 2

\* C19 -- active_chat_id is None or the id of a saved chat.
C19_ActiveChatExists ==
  active_chat_id = None \/ active_chat_id \in ChatIds(chat_history)

C19_Witness ==
  /\ lastOp = "delete"
  /\ Len(chat_history) = 1
  /\ chat_history[1].id = active_chat_id
  /\ Msgs # <<>>

====
